---- MODULE Spec2Model ----
(***************************************************************************)
(* Model of the Morse transcoder of dhbw-c-exam (morse.c variant,         *)
(* src/unnamed/part_000): the symbol table, encodeText and decodeText.    *)
(* A C string is a sequence of one-character strings; the terminating NUL *)
(* is not stored, so strlen(s) is Len(s).                                  *)
(***************************************************************************)
EXTENDS Integers, Sequences, FiniteSets, TLC

VARIABLES pc, decode, useSlashWordspacer, input, i, maxBufferSize,
          result, lastWasSpace, firstChar, codeBuf, spaceCount,
          argv, positional, stdinIsTty, stdinData, optidx, options,
          stdout, stderr, fileOut, exitStatus

vars == <<pc, decode, useSlashWordspacer, input, i, maxBufferSize,
          result, lastWasSpace, firstChar, codeBuf, spaceCount,
          argv, positional, stdinIsTty, stdinData, optidx, options,
          stdout, stderr, fileOut, exitStatus>>

\* The process around the two functions: command line, streams, exit status.
cliVars == <<argv, positional, stdinIsTty, stdinData, optidx, options,
             stdout, stderr, fileOut, exitStatus>>

\* *options = (Options){false, false, false, false, false, NULL, NULL, NULL, false}
NoOptions ==
  [help |-> FALSE, programmerInfo |-> FALSE, decode |-> FALSE, encode |-> FALSE,
   slashWordspacer |-> FALSE, inputText |-> FALSE, inputFile |-> FALSE,
   outputFile |-> FALSE, readFromPipe |-> FALSE]

NoFile == [written |-> FALSE, text |-> <<>>]

\* A process that has not started: no arguments, nothing printed.
NoProcess ==
  /\ argv = <<>>
  /\ positional = "none"
  /\ stdinIsTty = TRUE
  /\ stdinData = <<>>
  /\ optidx = 1
  /\ options = NoOptions
  /\ stdout = <<>>
  /\ stderr = <<>>
  /\ fileOut = NoFile
  /\ exitStatus = -1

(***************************************************************************)
(* Strings                                                                 *)
(***************************************************************************)
\* The bytes of a string literal, one element per byte.
Chars(s) == [k \in 1..Len(s) |-> SubSeq(s, k, k)]

\* All sequences over S of length at most n.
BoundedSeq(S, n) == UNION {[1..k -> S] : k \in 0..n}

Min(S) == CHOOSE m \in S : \A n \in S : m <= n

\* The elements of s at the positions in K, in order.
At(s, K) ==
  [j \in 1..Cardinality(K) |-> s[CHOOSE k \in K : Cardinality({m \in K : m <= k}) = j]]

\* The maximal runs of s that contain no element of D, in order.
Tokens(s, D) ==
  LET starts == {k \in 1..Len(s) : s[k] \notin D /\ (k = 1 \/ s[k - 1] \in D)}
      end(k) == Min({e \in k..Len(s) : e = Len(s) \/ s[e + 1] \in D})
  IN  [j \in 1..Cardinality(starts) |->
         LET k == CHOOSE k \in starts : Cardinality({m \in starts : m <= k}) = j
         IN  SubSeq(s, k, end(k))]

RECURSIVE Join(_, _)
\* The sequences of ss concatenated with sep between neighbours.
Join(ss, sep) ==
  IF ss = <<>> THEN <<>>
  ELSE IF Len(ss) = 1 THEN ss[1]
  ELSE ss[1] \o sep \o Join(Tail(ss), sep)

(***************************************************************************)
(* Symbol table                                                            *)
(***************************************************************************)
NULL == <<>>      \* the null code pointer: no table code is empty
NUL == ""         \* the byte '\0'

LowerCase == Chars("abcdefghijklmnopqrstuvwxyz")
UpperCase == Chars("ABCDEFGHIJKLMNOPQRSTUVWXYZ")
Digits == Chars("0123456789")
Punctuation == Chars(".,:;?!=-+_()/@")

MorseMapping(c, s) == [character |-> c, code |-> Chars(s)]

\* Variant of the table in which '8' repeats the code of 'Z'.
MORSE_TABLE_DuplicateCode ==
  << MorseMapping("A", ".-"),     MorseMapping("B", "-..."),
     MorseMapping("C", "-.-."),   MorseMapping("D", "-.."),
     MorseMapping("E", "."),      MorseMapping("F", "..-."),
     MorseMapping("G", "--."),    MorseMapping("H", "...."),
     MorseMapping("I", ".."),     MorseMapping("J", ".---"),
     MorseMapping("K", "-.-"),    MorseMapping("L", ".-.."),
     MorseMapping("M", "--"),     MorseMapping("N", "-."),
     MorseMapping("O", "---"),    MorseMapping("P", ".--."),
     MorseMapping("Q", "--.-"),   MorseMapping("R", ".-."),
     MorseMapping("S", "..."),    MorseMapping("T", "-"),
     MorseMapping("U", "..-"),    MorseMapping("V", "...-"),
     MorseMapping("W", ".--"),    MorseMapping("X", "-..-"),
     MorseMapping("Y", "-.--"),   MorseMapping("Z", "--.."),
     MorseMapping("0", "-----"),  MorseMapping("1", ".----"),
     MorseMapping("2", "..---"),  MorseMapping("3", "...--"),
     MorseMapping("4", "....-"),  MorseMapping("5", "....."),
     MorseMapping("6", "-...."),  MorseMapping("7", "--..."),
     MorseMapping("8", "--.."),   MorseMapping("9", "----."),
     MorseMapping(".", ".-.-.-"), MorseMapping(",", "--..--"),
     MorseMapping(":", "---..."), MorseMapping(";", "-.-.-."),
     MorseMapping("?", "..--.."), MorseMapping("!", "-.-.--"),
     MorseMapping("=", "-...-"),  MorseMapping("-", "-....-"),
     MorseMapping("+", ".-.-."),  MorseMapping("_", "..--.-"),
     MorseMapping("(", "-.--."),  MorseMapping(")", "-.--.-"),
     MorseMapping("/", "-..-."),  MorseMapping("@", ".--.-."),
     MorseMapping(" ", "/") >>

MORSE_TABLE ==
  << MorseMapping("A", ".-"),     MorseMapping("B", "-..."),
     MorseMapping("C", "-.-."),   MorseMapping("D", "-.."),
     MorseMapping("E", "."),      MorseMapping("F", "..-."),
     MorseMapping("G", "--."),    MorseMapping("H", "...."),
     MorseMapping("I", ".."),     MorseMapping("J", ".---"),
     MorseMapping("K", "-.-"),    MorseMapping("L", ".-.."),
     MorseMapping("M", "--"),     MorseMapping("N", "-."),
     MorseMapping("O", "---"),    MorseMapping("P", ".--."),
     MorseMapping("Q", "--.-"),   MorseMapping("R", ".-."),
     MorseMapping("S", "..."),    MorseMapping("T", "-"),
     MorseMapping("U", "..-"),    MorseMapping("V", "...-"),
     MorseMapping("W", ".--"),    MorseMapping("X", "-..-"),
     MorseMapping("Y", "-.--"),   MorseMapping("Z", "--.."),
     MorseMapping("0", "-----"),  MorseMapping("1", ".----"),
     MorseMapping("2", "..---"),  MorseMapping("3", "...--"),
     MorseMapping("4", "....-"),  MorseMapping("5", "....."),
     MorseMapping("6", "-...."),  MorseMapping("7", "--..."),
     MorseMapping("8", "---.."),  MorseMapping("9", "----."),
     MorseMapping(".", ".-.-.-"), MorseMapping(",", "--..--"),
     MorseMapping(":", "---..."), MorseMapping(";", "-.-.-."),
     MorseMapping("?", "..--.."), MorseMapping("!", "-.-.--"),
     MorseMapping("=", "-...-"),  MorseMapping("-", "-....-"),
     MorseMapping("+", ".-.-."),  MorseMapping("_", "..--.-"),
     MorseMapping("(", "-.--."),  MorseMapping(")", "-.--.-"),
     MorseMapping("/", "-..-."),  MorseMapping("@", ".--.-."),
     MorseMapping(" ", "/") >>

tableSize == Len(MORSE_TABLE)

\* toupper() of the C locale on the bytes the model uses.
toupper(c) ==
  IF \E k \in 1..Len(LowerCase) : LowerCase[k] = c
  THEN UpperCase[CHOOSE k \in 1..Len(LowerCase) : LowerCase[k] = c]
  ELSE c

\* Variant of getCharacterCode that compares without toupper.
getCharacterCode_CaseSensitive(c) ==
  LET hits == {k \in 1..tableSize : MORSE_TABLE[k].character = c}
  IN  IF hits = {} THEN NULL ELSE MORSE_TABLE[Min(hits)].code

\* The code of the first entry whose character is toupper(c), else NULL.
getCharacterCode(c) ==
  LET u == toupper(c)
      hits == {k \in 1..tableSize : MORSE_TABLE[k].character = u}
  IN  IF hits = {} THEN NULL ELSE MORSE_TABLE[Min(hits)].code

\* Variant of getCodeCharacter that accepts an entry the code starts with.
getCodeCharacter_Prefix(code) ==
  LET hits == {k \in 1..tableSize :
                 /\ Len(MORSE_TABLE[k].code) <= Len(code)
                 /\ SubSeq(code, 1, Len(MORSE_TABLE[k].code)) = MORSE_TABLE[k].code}
  IN  IF hits = {} THEN NUL ELSE MORSE_TABLE[Min(hits)].character

\* The character of the first entry whose code is exactly code, else NUL.
getCodeCharacter(code) ==
  LET hits == {k \in 1..tableSize : MORSE_TABLE[k].code = code}
  IN  IF hits = {} THEN NUL ELSE MORSE_TABLE[Min(hits)].character

(***************************************************************************)
(* encodeText                                                              *)
(***************************************************************************)
\* The locals of encodeText before the first loop iteration.
EncodeStart == [result |-> <<>>, lastWasSpace |-> FALSE, firstChar |-> TRUE]

\* Variant of the loop body that writes a word separator for every space.
EncodeByte_NoCollapse(st, currentChar, slash) ==
  IF currentChar = "\n" \/ currentChar = "\r" THEN st
  ELSE IF currentChar = " "
  THEN [st EXCEPT !.result = IF ~st.firstChar
                             THEN @ \o (IF slash THEN Chars(" / ") ELSE Chars("   "))
                             ELSE @,
                  !.lastWasSpace = TRUE]
  ELSE LET code == getCharacterCode(currentChar)
       IN  [result |-> st.result
                        \o (IF ~st.firstChar /\ ~st.lastWasSpace THEN <<" ">> ELSE <<>>)
                        \o (IF code # NULL THEN code ELSE <<"*">>),
            lastWasSpace |-> FALSE,
            firstChar |-> FALSE]

\* Variant of the loop body that treats a newline as a space.
EncodeByte_NewlineIsSpace(st, currentChar, slash) ==
  IF currentChar = " " \/ currentChar = "\n" \/ currentChar = "\r"
  THEN [st EXCEPT !.result = IF ~st.lastWasSpace /\ ~st.firstChar
                             THEN @ \o (IF slash THEN Chars(" / ") ELSE Chars("   "))
                             ELSE @,
                  !.lastWasSpace = TRUE]
  ELSE LET code == getCharacterCode(currentChar)
       IN  [result |-> st.result
                        \o (IF ~st.firstChar /\ ~st.lastWasSpace THEN <<" ">> ELSE <<>>)
                        \o (IF code # NULL THEN code ELSE <<"*">>),
            lastWasSpace |-> FALSE,
            firstChar |-> FALSE]

\* Variant of the loop body that writes the slash separator without its
\* leading space.
EncodeByte_BareSlash(st, currentChar, slash) ==
  IF currentChar = "\n" \/ currentChar = "\r" THEN st
  ELSE IF currentChar = " "
  THEN [st EXCEPT !.result = IF ~st.lastWasSpace /\ ~st.firstChar
                             THEN @ \o (IF slash THEN Chars("/ ") ELSE Chars("   "))
                             ELSE @,
                  !.lastWasSpace = TRUE]
  ELSE LET code == getCharacterCode(currentChar)
       IN  [result |-> st.result
                        \o (IF ~st.firstChar /\ ~st.lastWasSpace THEN <<" ">> ELSE <<>>)
                        \o (IF code # NULL THEN code ELSE <<"*">>),
            lastWasSpace |-> FALSE,
            firstChar |-> FALSE]

\* Variant of the loop body that writes no letter separator after a word
\* separator's first letter.
EncodeByte_TwoSpaceWords(st, currentChar, slash) ==
  IF currentChar = "\n" \/ currentChar = "\r" THEN st
  ELSE IF currentChar = " "
  THEN [st EXCEPT !.result = IF ~st.lastWasSpace /\ ~st.firstChar
                             THEN @ \o (IF slash THEN Chars(" / ") ELSE Chars("  "))
                             ELSE @,
                  !.lastWasSpace = TRUE]
  ELSE LET code == getCharacterCode(currentChar)
       IN  [result |-> st.result
                        \o (IF ~st.firstChar /\ ~st.lastWasSpace THEN <<" ">> ELSE <<>>)
                        \o (IF code # NULL THEN code ELSE <<"*">>),
            lastWasSpace |-> FALSE,
            firstChar |-> FALSE]

\* Variant of the loop body that writes nothing for an unmapped character.
EncodeByte_SkipUnknown(st, currentChar, slash) ==
  IF currentChar = "\n" \/ currentChar = "\r" THEN st
  ELSE IF currentChar = " "
  THEN [st EXCEPT !.result = IF ~st.lastWasSpace /\ ~st.firstChar
                             THEN @ \o (IF slash THEN Chars(" / ") ELSE Chars("   "))
                             ELSE @,
                  !.lastWasSpace = TRUE]
  ELSE LET code == getCharacterCode(currentChar)
       IN  IF code # NULL
           THEN [result |-> st.result
                        \o (IF ~st.firstChar /\ ~st.lastWasSpace THEN <<" ">> ELSE <<>>)
                        \o code,
                 lastWasSpace |-> FALSE,
                 firstChar |-> FALSE]
           ELSE st

\* One iteration of encodeText's for loop on the byte currentChar.
EncodeByte(st, currentChar, slash) ==
  IF currentChar = "\n" \/ currentChar = "\r" THEN st
  ELSE IF currentChar = " "
  THEN [st EXCEPT !.result = IF ~st.lastWasSpace /\ ~st.firstChar
                             THEN @ \o (IF slash THEN Chars(" / ") ELSE Chars("   "))
                             ELSE @,
                  !.lastWasSpace = TRUE]
  ELSE LET code == getCharacterCode(currentChar)
       IN  [result |-> st.result
                        \o (IF ~st.firstChar /\ ~st.lastWasSpace THEN <<" ">> ELSE <<>>)
                        \o (IF code # NULL THEN code ELSE <<"*">>),
            lastWasSpace |-> FALSE,
            firstChar |-> FALSE]

RECURSIVE EncodeFrom(_, _, _, _)
\* The loop of encodeText from position k on.
EncodeFrom(st, text, k, slash) ==
  IF k > Len(text) THEN st
  ELSE EncodeFrom(EncodeByte(st, text[k], slash), text, k + 1, slash)

\* The string encodeText builds for text (its buffer taken as large enough).
encodeText(text, slash) == EncodeFrom(EncodeStart, text, 1, slash).result

(***************************************************************************)
(* decodeText                                                              *)
(***************************************************************************)
CodeBufSize == 20

\* The locals of decodeText before the first loop iteration.
DecodeStart == [result |-> <<>>, codeBuf |-> <<>>, spaceCount |-> 0]

\* Variant of the flush that writes '*' for an unknown code.
Flush_StarForUnknown(st) ==
  IF Len(st.codeBuf) > 0
  THEN LET c == getCodeCharacter(st.codeBuf)
       IN  [st EXCEPT !.result = IF c # NUL THEN Append(@, c) ELSE Append(@, "*"),
                      !.codeBuf = <<>>]
  ELSE st

\* if (codeBufIndex > 0) { look the code up, append its character, clear }.
Flush(st) ==
  IF Len(st.codeBuf) > 0
  THEN LET c == getCodeCharacter(st.codeBuf)
       IN  [st EXCEPT !.result = IF c # NUL THEN Append(@, c) ELSE @,
                      !.codeBuf = <<>>]
  ELSE st

\* Variant of the loop body that writes no space for a slash.
DecodeByte_SlashNoSpace(st, c) ==
  IF c = "\n" \/ c = "\r" THEN st
  ELSE IF c = " "
  THEN LET n == st.spaceCount + 1
       IN  IF n = 1 /\ Len(st.codeBuf) > 0
           THEN [Flush(st) EXCEPT !.spaceCount = n]
           ELSE IF n = 3
           THEN [st EXCEPT !.result = Append(@, " "), !.spaceCount = 0]
           ELSE [st EXCEPT !.spaceCount = n]
  ELSE IF c = "/"
  THEN [Flush(st) EXCEPT !.spaceCount = 0]
  ELSE [st EXCEPT !.spaceCount = 0,
                  !.codeBuf = IF Len(@) < CodeBufSize - 1 THEN Append(@, c) ELSE @]

\* Variant of the loop body whose slash branch does not clear the code buffer.
DecodeByte_SlashKeepsCode(st, c) ==
  IF c = "\n" \/ c = "\r" THEN st
  ELSE IF c = " "
  THEN LET n == st.spaceCount + 1
       IN  IF n = 1 /\ Len(st.codeBuf) > 0
           THEN [Flush(st) EXCEPT !.spaceCount = n]
           ELSE IF n = 3
           THEN [st EXCEPT !.result = Append(@, " "), !.spaceCount = 0]
           ELSE [st EXCEPT !.spaceCount = n]
  ELSE IF c = "/"
  THEN [st EXCEPT !.result = Append(Flush(st).result, " "), !.spaceCount = 0]
  ELSE [st EXCEPT !.spaceCount = 0,
                  !.codeBuf = IF Len(@) < CodeBufSize - 1 THEN Append(@, c) ELSE @]

\* Variant of the loop body in which a newline restarts the run of spaces.
DecodeByte_NewlineResetsSpaces(st, c) ==
  IF c = "\n" \/ c = "\r" THEN [st EXCEPT !.spaceCount = 0]
  ELSE IF c = " "
  THEN LET n == st.spaceCount + 1
       IN  IF n = 1 /\ Len(st.codeBuf) > 0
           THEN [Flush(st) EXCEPT !.spaceCount = n]
           ELSE IF n = 3
           THEN [st EXCEPT !.result = Append(@, " "), !.spaceCount = 0]
           ELSE [st EXCEPT !.spaceCount = n]
  ELSE IF c = "/"
  THEN [Flush(st) EXCEPT !.result = Append(@, " "), !.spaceCount = 0]
  ELSE [st EXCEPT !.spaceCount = 0,
                  !.codeBuf = IF Len(@) < CodeBufSize - 1 THEN Append(@, c) ELSE @]

\* Variant of the loop body that keeps counting after the third space.
DecodeByte_NoSpaceReset(st, c) ==
  IF c = "\n" \/ c = "\r" THEN st
  ELSE IF c = " "
  THEN LET n == st.spaceCount + 1
       IN  IF n = 1 /\ Len(st.codeBuf) > 0
           THEN [Flush(st) EXCEPT !.spaceCount = n]
           ELSE IF n = 3
           THEN [st EXCEPT !.result = Append(@, " "), !.spaceCount = n]
           ELSE [st EXCEPT !.spaceCount = n]
  ELSE IF c = "/"
  THEN [Flush(st) EXCEPT !.result = Append(@, " "), !.spaceCount = 0]
  ELSE [st EXCEPT !.spaceCount = 0,
                  !.codeBuf = IF Len(@) < CodeBufSize - 1 THEN Append(@, c) ELSE @]

\* Variant of the loop body whose slash branch writes the space before the pending character.
DecodeByte_SlashSpaceFirst(st, c) ==
  IF c = "\n" \/ c = "\r" THEN st
  ELSE IF c = " "
  THEN LET n == st.spaceCount + 1
       IN  IF n = 1 /\ Len(st.codeBuf) > 0
           THEN [Flush(st) EXCEPT !.spaceCount = n]
           ELSE IF n = 3
           THEN [st EXCEPT !.result = Append(@, " "), !.spaceCount = 0]
           ELSE [st EXCEPT !.spaceCount = n]
  ELSE IF c = "/"
  THEN [Flush([st EXCEPT !.result = Append(@, " ")]) EXCEPT !.spaceCount = 0]
  ELSE [st EXCEPT !.spaceCount = 0,
                  !.codeBuf = IF Len(@) < CodeBufSize - 1 THEN Append(@, c) ELSE @]

\* Variant of the loop body that appends to the code buffer without the size test.
DecodeByte_NoTruncation(st, c) ==
  IF c = "\n" \/ c = "\r" THEN st
  ELSE IF c = " "
  THEN LET n == st.spaceCount + 1
       IN  IF n = 1 /\ Len(st.codeBuf) > 0
           THEN [Flush(st) EXCEPT !.spaceCount = n]
           ELSE IF n = 3
           THEN [st EXCEPT !.result = Append(@, " "), !.spaceCount = 0]
           ELSE [st EXCEPT !.spaceCount = n]
  ELSE IF c = "/"
  THEN [Flush(st) EXCEPT !.result = Append(@, " "), !.spaceCount = 0]
  ELSE [st EXCEPT !.spaceCount = 0,
                  !.codeBuf = Append(@, c)]

\* One iteration of decodeText's for loop on the byte c.
DecodeByte(st, c) ==
  IF c = "\n" \/ c = "\r" THEN st
  ELSE IF c = " "
  THEN LET n == st.spaceCount + 1
       IN  IF n = 1 /\ Len(st.codeBuf) > 0
           THEN [Flush(st) EXCEPT !.spaceCount = n]
           ELSE IF n = 3
           THEN [st EXCEPT !.result = Append(@, " "), !.spaceCount = 0]
           ELSE [st EXCEPT !.spaceCount = n]
  ELSE IF c = "/"
  THEN [Flush(st) EXCEPT !.result = Append(@, " "), !.spaceCount = 0]
  ELSE [st EXCEPT !.spaceCount = 0,
                  !.codeBuf = IF Len(@) < CodeBufSize - 1 THEN Append(@, c) ELSE @]

RECURSIVE DecodeFrom(_, _, _)
\* The loop of decodeText from position k on.
DecodeFrom(st, morse, k) ==
  IF k > Len(morse) THEN st
  ELSE DecodeFrom(DecodeByte(st, morse[k]), morse, k + 1)

\* The string decodeText returns for morse.
decodeText(morse) == Flush(DecodeFrom(DecodeStart, morse, 1)).result

(***************************************************************************)
(* Inputs                                                                  *)
(***************************************************************************)
MaxTextLen == 4
MaxMorseLen == 5

\* The characters with a table entry, in either case.
Supported ==
  {UpperCase[k] : k \in 1..Len(UpperCase)} \cup {LowerCase[k] : k \in 1..Len(LowerCase)}
  \cup {Digits[k] : k \in 1..Len(Digits)}
  \cup {Punctuation[k] : k \in 1..Len(Punctuation)} \cup {" "}

TextAlphabet == {"A", "b", "/", "#", " ", "\n"}
MorseAlphabet == {".", "-", " ", "/", "#", "\n"}

TextExamples ==
  { Chars("AB CD"), Chars("A   B"), Chars("hello"), Chars("HELLO"),
    Chars("A\r\nB"), Chars("8 z+"), Chars("A \r  b "), Chars("  A#B"), Chars("A#B"),
    Chars("AB "), Chars(" AB") }

MorseExamples ==
  { Chars(".- / -..."), Chars(".-/-..."), Chars(".-   -..."), Chars(".-  -..."),
    Chars("-..-. # .-"), Chars(".-\r\n-.  *"),
    Chars(".-.-.-.-.-.-.-.-.-.-.- ."), Chars(". \n  -"), Chars(".      -"),
    Chars(".-    -"), Chars(". --------------------/") }

TextInputs ==
  BoundedSeq(TextAlphabet, MaxTextLen) \cup {<<c>> : c \in Supported} \cup TextExamples

MorseInputs == BoundedSeq(MorseAlphabet, MaxMorseLen) \cup MorseExamples

(***************************************************************************)
(* One call of encodeText or decodeText on an input the caller supplies    *)
(***************************************************************************)
Init ==
  /\ pc = "call"
  /\ decode \in BOOLEAN
  /\ useSlashWordspacer \in (IF decode THEN {FALSE} ELSE BOOLEAN)
  /\ input \in (IF decode THEN MorseInputs ELSE TextInputs)
  /\ i = 1
  /\ maxBufferSize = 0
  /\ result = <<>>
  /\ lastWasSpace = FALSE
  /\ firstChar = TRUE
  /\ codeBuf = <<>>
  /\ spaceCount = 0
  /\ NoProcess

\* encodeText up to the loop: malloc(strlen(text) * 10), result[0] = '\0'.
\* With an empty text the size is 0: malloc returns NULL (memory error) or a
\* block of no bytes, and the write of result[0] is outside it.
EncodeAlloc ==
  /\ pc = "call"
  /\ ~decode
  /\ maxBufferSize' = Len(input) * 10
  /\ pc' \in (IF Len(input) * 10 >= 1 THEN {"encode"} ELSE {"encode", "error", "fault"})
  /\ result' = EncodeStart.result
  /\ lastWasSpace' = EncodeStart.lastWasSpace
  /\ firstChar' = EncodeStart.firstChar
  /\ i' = 1
  /\ UNCHANGED <<decode, useSlashWordspacer, input, codeBuf, spaceCount>>
  /\ UNCHANGED cliVars

\* One iteration of encodeText's loop; a strcat past the buffer is undefined.
EncodeLoop ==
  /\ pc = "encode"
  /\ i <= Len(input)
  /\ LET st == EncodeByte([result |-> result, lastWasSpace |-> lastWasSpace,
                           firstChar |-> firstChar], input[i], useSlashWordspacer)
     IN  /\ result' = st.result
         /\ lastWasSpace' = st.lastWasSpace
         /\ firstChar' = st.firstChar
         /\ pc' \in (IF Len(st.result) + 1 <= maxBufferSize \/ st.result = result
                     THEN {"encode"} ELSE {"encode", "fault"})
  /\ i' = i + 1
  /\ UNCHANGED <<decode, useSlashWordspacer, input, maxBufferSize, codeBuf, spaceCount>>
  /\ UNCHANGED cliVars

\* text[i] == '\0': return createSuccess(result).
EncodeReturn ==
  /\ pc = "encode"
  /\ i > Len(input)
  /\ pc' = "done"
  /\ UNCHANGED <<decode, useSlashWordspacer, input, i, maxBufferSize, result,
                 lastWasSpace, firstChar, codeBuf, spaceCount>>
  /\ UNCHANGED cliVars

\* decodeText up to the loop: malloc(strlen(morse) + 1), result[0] = '\0'.
DecodeAlloc ==
  /\ pc = "call"
  /\ decode
  /\ maxBufferSize' = Len(input) + 1
  /\ pc' = "decode"
  /\ result' = DecodeStart.result
  /\ codeBuf' = DecodeStart.codeBuf
  /\ spaceCount' = DecodeStart.spaceCount
  /\ i' = 1
  /\ UNCHANGED <<decode, useSlashWordspacer, input, lastWasSpace, firstChar>>
  /\ UNCHANGED cliVars

\* One iteration of decodeText's loop.
DecodeLoop ==
  /\ pc = "decode"
  /\ i <= Len(input)
  /\ LET st == DecodeByte([result |-> result, codeBuf |-> codeBuf,
                           spaceCount |-> spaceCount], input[i])
     IN  /\ result' = st.result
         /\ codeBuf' = st.codeBuf
         /\ spaceCount' = st.spaceCount
  /\ i' = i + 1
  /\ pc' = "decode"
  /\ UNCHANGED <<decode, useSlashWordspacer, input, maxBufferSize, lastWasSpace, firstChar>>
  /\ UNCHANGED cliVars

\* morse[i] == '\0': flush the last code and return createSuccess(result).
\* codeBufIndex is not reset by this last flush.
DecodeReturn ==
  /\ pc = "decode"
  /\ i > Len(input)
  /\ result' = Flush([result |-> result, codeBuf |-> codeBuf,
                      spaceCount |-> spaceCount]).result
  /\ pc' = "done"
  /\ UNCHANGED <<decode, useSlashWordspacer, input, i, maxBufferSize,
                 lastWasSpace, firstChar, codeBuf, spaceCount>>
  /\ UNCHANGED cliVars

Next ==
  \/ EncodeAlloc
  \/ EncodeLoop
  \/ EncodeReturn
  \/ DecodeAlloc
  \/ DecodeLoop
  \/ DecodeReturn

Spec == Init /\ [][Next]_vars

\* A finished encodeText call and a finished decodeText call.
Encoded == pc = "done" /\ ~decode
Decoded == pc = "done" /\ decode

TypeOK ==
  /\ pc \in {"call", "encode", "decode", "done", "error", "fault",
            "getopt", "main", "process", "exit"}
  /\ i \in 1..(Len(input) + 1)
  /\ spaceCount \in 0..3

(***************************************************************************)
(* Reference notions used by the properties                                *)
(***************************************************************************)
IsNewline(c) == c = "\n" \/ c = "\r"

\* text with toupper applied to every byte.
Upper(text) == [k \in 1..Len(text) |-> toupper(text[k])]

\* text without its \n and \r bytes.
StripNewlines(text) == SelectSeq(text, LAMBDA c : ~IsNewline(c))

\* text without its leading and its trailing spaces.
TrimSpaces(text) ==
  At(text, {k \in 1..Len(text) :
              /\ \E j \in 1..k : text[j] # " "
              /\ \E j \in k..Len(text) : text[j] # " "})

\* text with every run of spaces that lies between two non-space bytes
\* shortened to one space.
CollapseInterior(text) ==
  At(text, {k \in 1..Len(text) :
              ~ /\ text[k] = " "
                /\ k > 1 /\ text[k - 1] = " "
                /\ \E j \in 1..k : text[j] # " "
                /\ \E j \in k..Len(text) : text[j] # " "})

\* Words of supported non-space characters separated by single spaces.
WellFormed(text) ==
  /\ Len(text) >= 1
  /\ \A k \in 1..Len(text) : text[k] \in Supported
  /\ text[1] # " " /\ text[Len(text)] # " "
  /\ \A k \in 1..(Len(text) - 1) : ~(text[k] = " " /\ text[k + 1] = " ")

HasEntry(c) == \E k \in 1..tableSize : MORSE_TABLE[k].character = toupper(c)

\* The codes of each word joined by one space, the words joined by wordSep.
Reference(text, wordSep) ==
  LET words == Tokens(text, {" "})
      word(w) == Join([k \in 1..Len(w) |-> getCharacterCode(w[k])], <<" ">>)
  IN  Join([j \in 1..Len(words) |-> word(words[j])], wordSep)

RECURSIVE SlashForm(_)
\* s with each run of three spaces, from the left, replaced by " / ".
SlashForm(s) ==
  IF Len(s) >= 3 /\ SubSeq(s, 1, 3) = Chars("   ")
  THEN Chars(" / ") \o SlashForm(SubSeq(s, 4, Len(s)))
  ELSE IF s = <<>> THEN <<>>
  ELSE <<Head(s)>> \o SlashForm(Tail(s))

\* The table read as a relation: its characters, and no repetition.
TableHasNoDuplicate ==
  /\ {MORSE_TABLE[k].character : k \in 1..tableSize}
       = {UpperCase[k] : k \in 1..Len(UpperCase)} \cup {Digits[k] : k \in 1..Len(Digits)}
           \cup {Punctuation[k] : k \in 1..Len(Punctuation)} \cup {" "}
  /\ \A j, k \in 1..tableSize :
       j # k => /\ MORSE_TABLE[j].character # MORSE_TABLE[k].character
                /\ MORSE_TABLE[j].code # MORSE_TABLE[k].code
  /\ getCharacterCode(" ") = <<"/">>
  /\ \A k \in 1..tableSize :
       getCodeCharacter(getCharacterCode(MORSE_TABLE[k].character)) = MORSE_TABLE[k].character

(***************************************************************************)
(* Properties                                                              *)
(***************************************************************************)

\* C1 (as stated): for every single character c of the supported set, space
\* included, decodeText(encodeText(c, false)) is the one-character string
\* uppercase(c).
RoundTripEverySupportedChar ==
  (Encoded /\ ~useSlashWordspacer /\ Len(input) = 1 /\ input[1] \in Supported)
    => decodeText(result) = <<toupper(input[1])>>

\* C1 (amended): for every single non-space character c of the supported set
\* decodeText(encodeText(c, false)) is the one-character string uppercase(c);
\* a single space encodes to the empty string, which decodes to the empty
\* string.
RoundTripNonSpaceChar ==
  /\ (Encoded /\ ~useSlashWordspacer /\ Len(input) = 1 /\ input[1] \in Supported \ {" "})
       => decodeText(result) = <<toupper(input[1])>>
  /\ (Encoded /\ ~useSlashWordspacer /\ input = <<" ">>)
       => (result = <<>> /\ decodeText(result) = <<>>)

RoundTripNonSpaceCharWitness ==
  /\ Encoded /\ ~useSlashWordspacer
  /\ input = <<"q">>
  /\ result = Chars("--.-")
  /\ decodeText(result) = <<"Q">>

\* C2: the string encodeText returns neither starts nor ends with a space or
\* a word separator, and it is the string returned for the input without its
\* leading and trailing spaces.
NoOuterSeparator ==
  Encoded =>
    /\ result # <<>> => (result[1] \notin {" ", "/"} /\ result[Len(result)] \notin {" ", "/"})
    /\ result = encodeText(TrimSpaces(input), useSlashWordspacer)

\* C3: for every text of words of supported non-space characters separated
\* by single spaces, decoding the encoding gives uppercase(text), in both
\* separator modes, and both modes decode to the same text.
RoundTripBothSeparators ==
  (Encoded /\ WellFormed(input)) =>
    /\ decodeText(result) = Upper(input)
    /\ decodeText(encodeText(input, ~useSlashWordspacer)) = decodeText(result)

RoundTripBothSeparatorsWitness ==
  /\ Encoded /\ useSlashWordspacer
  /\ input = Chars("AB CD")
  /\ decodeText(result) = Chars("AB CD")
  /\ decodeText(encodeText(input, FALSE)) = Chars("AB CD")

\* C4: without the slash option, a text of words separated by single spaces
\* encodes to each word's codes joined by one space and the words joined by
\* three spaces; encode("AB CD") is ".- -...   -.-. -..".
TripleSpaceBetweenWords ==
  (Encoded /\ ~useSlashWordspacer /\ WellFormed(input)) =>
    /\ result = Reference(input, Chars("   "))
    /\ input = Chars("AB CD") => result = Chars(".- -...   -.-. -..")

TripleSpaceBetweenWordsWitness ==
  /\ Encoded /\ ~useSlashWordspacer
  /\ input = Chars("AB CD")
  /\ result = Chars(".- -...   -.-. -..")

\* C5: with the slash option the output is the output without the option
\* with each three-space word separator replaced by " / "; letters are still
\* joined by one space; encode("AB CD", true) is ".- -... / -.-. -..".
SlashReplacesTripleSpace ==
  (Encoded /\ useSlashWordspacer) =>
    /\ result = SlashForm(encodeText(input, FALSE))
    /\ input = Chars("AB CD") => result = Chars(".- -... / -.-. -..")

SlashReplacesTripleSpaceWitness ==
  /\ Encoded /\ useSlashWordspacer
  /\ input = Chars("AB CD")
  /\ result = Chars(".- -... / -.-. -..")

\* C6: two inputs that differ only in the lengths of the runs of spaces
\* between two non-space characters encode to the same string: each input
\* encodes like the input with those runs shortened to one space.
InteriorSpaceRunsCollapse ==
  Encoded => result = encodeText(CollapseInterior(input), useSlashWordspacer)

InteriorSpaceRunsCollapseWitness ==
  /\ Encoded /\ ~useSlashWordspacer
  /\ input = Chars("A   B")
  /\ CollapseInterior(input) = Chars("A B")
  /\ result = Chars(".-   -...")

UnmappedBecomesStar ==
  Encoded =>
    LET bytes == SelectSeq(input, LAMBDA c : c # " " /\ ~IsNewline(c))
        tokens == SelectSeq(Tokens(result, {" "}), LAMBDA t : t # <<"/">>)
    IN  /\ tokens = [k \in 1..Len(bytes) |->
                       IF HasEntry(bytes[k]) THEN getCharacterCode(bytes[k]) ELSE <<"*">>]
        /\ input = Chars("A#B") => result = Chars(".- * -...")

UnmappedBecomesStarWitness ==
  /\ Encoded /\ ~useSlashWordspacer
  /\ input = Chars("A#B")
  /\ result = Chars(".- * -...")

\* C9: the non-space characters decodeText returns are, in order, the table
\* characters of the code tokens that match a table entry; a token that
\* matches none adds nothing; decode("#") and decode(encode("#")) are empty.
UnknownCodeIsDropped ==
  /\ Decoded =>
       LET tokens == Tokens(StripNewlines(input), {" ", "/"})
           known == SelectSeq(tokens, LAMBDA t : \E k \in 1..tableSize : MORSE_TABLE[k].code = t)
       IN  /\ SelectSeq(result, LAMBDA c : c # " ")
                = [k \in 1..Len(known) |-> getCodeCharacter(known[k])]
           /\ input = <<"#">> => result = <<>>
  /\ (Encoded /\ input = <<"#">>) => (result = <<"*">> /\ decodeText(result) = <<>>)

UnknownCodeIsDroppedWitness ==
  /\ Decoded
  /\ input = Chars("-..-. # .-")
  /\ result = Chars("/A")

\* C10: MORSE_TABLE holds exactly A-Z, 0-9, the punctuation and the space
\* (mapped to "/"), no character twice and no code twice, so the reverse
\* lookup of a table character's code gives the character back.
TableIsBijection ==
  /\ TableHasNoDuplicate
  /\ (Encoded /\ Len(input) = 1 /\ HasEntry(input[1]) /\ input[1] # " ")
       => getCodeCharacter(result) = toupper(input[1])

TableIsBijectionWitness ==
  /\ Encoded
  /\ input = <<"8">>
  /\ result = Chars("---..")
  /\ getCodeCharacter(result) = "8"

(***************************************************************************)
(* The main.c variant: its own table and its own copies of the functions   *)
(***************************************************************************)
\* main.c's table: '8' carries "--..", the code of 'Z', and '9' carries "---..".
Main_MORSE_TABLE ==
  << MorseMapping("A", ".-"),     MorseMapping("B", "-..."),   MorseMapping("C", "-.-."),
     MorseMapping("D", "-.."),    MorseMapping("E", "."),      MorseMapping("F", "..-."),
     MorseMapping("G", "--."),    MorseMapping("H", "...."),   MorseMapping("I", ".."),
     MorseMapping("J", ".---"),   MorseMapping("K", "-.-"),    MorseMapping("L", ".-.."),
     MorseMapping("M", "--"),     MorseMapping("N", "-."),     MorseMapping("O", "---"),
     MorseMapping("P", ".--."),   MorseMapping("Q", "--.-"),   MorseMapping("R", ".-."),
     MorseMapping("S", "..."),    MorseMapping("T", "-"),      MorseMapping("U", "..-"),
     MorseMapping("V", "...-"),   MorseMapping("W", ".--"),    MorseMapping("X", "-..-"),
     MorseMapping("Y", "-.--"),   MorseMapping("Z", "--.."),   MorseMapping("0", "-----"),
     MorseMapping("1", ".----"),  MorseMapping("2", "..---"),  MorseMapping("3", "...--"),
     MorseMapping("4", "....-"),  MorseMapping("5", "....."),  MorseMapping("6", "-...."),
     MorseMapping("7", "--..."),  MorseMapping("8", "--.."),   MorseMapping("9", "---.."),
     MorseMapping(".", ".-.-.-"), MorseMapping(",", "--..--"), MorseMapping("?", "..--.."),
     MorseMapping("!", "-.-.--"), MorseMapping(" ", "/"),      MorseMapping(":", "---..."),
     MorseMapping(";", "-.-.-."), MorseMapping("=", "-...-"),  MorseMapping("-", "-....-"),
     MorseMapping("+", ".-.-."),  MorseMapping("_", "..--.-"), MorseMapping("(", "-.--."),
     MorseMapping(")", "-.--.-"), MorseMapping("/", "-..-."),  MorseMapping("@", ".--.-.") >>

Main_tableSize == Len(Main_MORSE_TABLE)

\* main.c getCharacterCode.
Main_getCharacterCode(c) ==
  LET u == toupper(c)
      hits == {k \in 1..Main_tableSize : Main_MORSE_TABLE[k].character = u}
  IN  IF hits = {} THEN NULL ELSE Main_MORSE_TABLE[Min(hits)].code

\* main.c getCodeCharacter: the first entry with the code wins.
Main_getCodeCharacter(code) ==
  LET hits == {k \in 1..Main_tableSize : Main_MORSE_TABLE[k].code = code}
  IN  IF hits = {} THEN NUL ELSE Main_MORSE_TABLE[Min(hits)].character

\* One iteration of the loop of main.c's encodeText (triple space only).
Main_EncodeByte(st, currentChar) ==
  IF currentChar = "\n" \/ currentChar = "\r" THEN st
  ELSE IF currentChar = " "
  THEN [st EXCEPT !.result = IF ~st.lastWasSpace /\ ~st.firstChar
                             THEN @ \o Chars("   ") ELSE @,
                  !.lastWasSpace = TRUE]
  ELSE LET code == Main_getCharacterCode(currentChar)
       IN  [result |-> st.result
                        \o (IF ~st.firstChar /\ ~st.lastWasSpace THEN <<" ">> ELSE <<>>)
                        \o (IF code # NULL THEN code ELSE <<"*">>),
            lastWasSpace |-> FALSE,
            firstChar |-> FALSE]

RECURSIVE Main_EncodeFrom(_, _, _)
Main_EncodeFrom(st, text, k) ==
  IF k > Len(text) THEN st
  ELSE Main_EncodeFrom(Main_EncodeByte(st, text[k]), text, k + 1)

\* The string main.c's encodeText builds for text.
Main_encodeText(text) == Main_EncodeFrom(EncodeStart, text, 1).result

\* The flush of main.c's decodeText.
Main_Flush(st) ==
  IF Len(st.codeBuf) > 0
  THEN LET c == Main_getCodeCharacter(st.codeBuf)
       IN  [st EXCEPT !.result = IF c # NUL THEN Append(@, c) ELSE @,
                      !.codeBuf = <<>>]
  ELSE st

\* One iteration of the loop of main.c's decodeText.
Main_DecodeByte(st, c) ==
  IF c = "\n" \/ c = "\r" THEN st
  ELSE IF c = " "
  THEN LET n == st.spaceCount + 1
       IN  IF n = 1 /\ Len(st.codeBuf) > 0
           THEN [Main_Flush(st) EXCEPT !.spaceCount = n]
           ELSE IF n = 3
           THEN [st EXCEPT !.result = Append(@, " "), !.spaceCount = 0]
           ELSE [st EXCEPT !.spaceCount = n]
  ELSE IF c = "/"
  THEN [Main_Flush(st) EXCEPT !.result = Append(@, " "), !.spaceCount = 0]
  ELSE [st EXCEPT !.spaceCount = 0,
                  !.codeBuf = IF Len(@) < CodeBufSize - 1 THEN Append(@, c) ELSE @]

RECURSIVE Main_DecodeFrom(_, _, _)
Main_DecodeFrom(st, morse, k) ==
  IF k > Len(morse) THEN st
  ELSE Main_DecodeFrom(Main_DecodeByte(st, morse[k]), morse, k + 1)

\* The string main.c's decodeText returns for morse.
Main_decodeText(morse) == Main_Flush(Main_DecodeFrom(DecodeStart, morse, 1)).result

MaxMainLen == 2

Main_TextInputs ==
  BoundedSeq(TextAlphabet, MaxMainLen) \cup {<<c>> : c \in Supported} \cup TextExamples

Main_MorseInputs == BoundedSeq(MorseAlphabet, MaxMainLen) \cup MorseExamples

\* One call of main.c's encodeText or decodeText.
Main_Init ==
  /\ pc = "call"
  /\ decode \in BOOLEAN
  /\ useSlashWordspacer = FALSE
  /\ input \in (IF decode THEN Main_MorseInputs ELSE Main_TextInputs)
  /\ i = 1
  /\ maxBufferSize = 0
  /\ result = <<>>
  /\ lastWasSpace = FALSE
  /\ firstChar = TRUE
  /\ codeBuf = <<>>
  /\ spaceCount = 0
  /\ NoProcess

\* main.c encodeText, the whole call.  With an empty text malloc(0) either
\* fails (exit(EXIT_FAILURE)) or gives a block the write of result[0] overruns.
Main_EncodeCall ==
  /\ pc = "call"
  /\ ~decode
  /\ maxBufferSize' = Len(input) * 10
  /\ pc' \in (IF Len(input) * 10 >= 1 THEN {"done"} ELSE {"done", "error", "fault"})
  /\ LET st == Main_EncodeFrom(EncodeStart, input, 1)
     IN  /\ result' = st.result
         /\ lastWasSpace' = st.lastWasSpace
         /\ firstChar' = st.firstChar
  /\ i' = Len(input) + 1
  /\ UNCHANGED <<decode, useSlashWordspacer, input, codeBuf, spaceCount>>
  /\ UNCHANGED cliVars

\* main.c decodeText, the whole call.
Main_DecodeCall ==
  /\ pc = "call"
  /\ decode
  /\ maxBufferSize' = Len(input) + 1
  /\ pc' = "done"
  /\ LET st == Main_DecodeFrom(DecodeStart, input, 1)
     IN  /\ result' = Main_Flush(st).result
         /\ codeBuf' = st.codeBuf
         /\ spaceCount' = st.spaceCount
  /\ i' = Len(input) + 1
  /\ UNCHANGED <<decode, useSlashWordspacer, input, lastWasSpace, firstChar>>
  /\ UNCHANGED cliVars

Main_Next ==
  \/ Main_EncodeCall
  \/ Main_DecodeCall

MainSpec == Main_Init /\ [][Main_Next]_vars

\* C11: in the main.c variant every digit and every letter A-Z survives the
\* round trip, decodeText(encodeText(c)) == c (which needs every code of
\* main.c's table to belong to one entry only).
Main_RoundTripLettersAndDigits ==
  (Encoded /\ Len(input) = 1
     /\ input[1] \in {UpperCase[k] : k \in 1..Len(UpperCase)}
                       \cup {Digits[k] : k \in 1..Len(Digits)})
    => Main_decodeText(result) = input

(***************************************************************************)
(* Properties of the morse.c variant, continued                            *)
(***************************************************************************)
\* tolower() of the C locale on the bytes the model uses.
tolower(c) ==
  IF \E k \in 1..Len(UpperCase) : UpperCase[k] = c
  THEN LowerCase[CHOOSE k \in 1..Len(UpperCase) : UpperCase[k] = c]
  ELSE c

\* text with tolower applied to every byte.
Lower(text) == [k \in 1..Len(text) |-> tolower(text[k])]

\* C12: encodeText is case-insensitive: the text with all letters lowercased
\* and the text with all letters uppercased encode to the same string, which
\* is also the encoding of the text as given.
EncodeIgnoresCase ==
  Encoded =>
    /\ encodeText(Lower(input), useSlashWordspacer) = encodeText(Upper(input), useSlashWordspacer)
    /\ result = encodeText(Upper(input), useSlashWordspacer)

EncodeIgnoresCaseWitness ==
  /\ Encoded
  /\ input = Chars("hello")
  /\ Upper(input) = Chars("HELLO")
  /\ result = Chars(".... . .-.. .-.. ---")
  /\ encodeText(Chars("HELLO"), useSlashWordspacer) = result

\* C13: on the empty input encodeText and decodeText both return a success
\* result that holds the empty string.
EmptyInputGivesEmptyOutput ==
  input = <<>> =>
    /\ pc \notin {"error", "fault"}
    /\ pc = "done" => result = <<>>

(***************************************************************************)
(* The program: main and parseCommandLine of morse.c                       *)
(*                                                                         *)
(* argv is the sequence of options getopt_long returns, by their switch    *)
(* value ("s" is --slash-wordspacer, "?" an invalid option); positional    *)
(* tells whether an argument is left at optind and whether access() finds  *)
(* it readable.                                                            *)
(***************************************************************************)
MaxArgs == 3

OptionValues == {"h", "p", "e", "d", "o", "s", "?"}

StdinContents == {Chars(".-\n"), Chars("\n")}
ArgText == Chars("-...")
FileContent == Chars("--\n")

\* "Trim trailing newline if present" of readFromStdin and readFileContent.
TrimNewline(buffer) ==
  IF Len(buffer) > 0 /\ buffer[Len(buffer)] = "\n"
  THEN SubSeq(buffer, 1, Len(buffer) - 1) ELSE buffer

CliInit ==
  /\ pc = "getopt"
  /\ argv \in BoundedSeq(OptionValues, MaxArgs)
  /\ positional \in {"none", "text", "file"}
  /\ stdinIsTty \in BOOLEAN
  /\ stdinData \in (IF stdinIsTty THEN {<<>>} ELSE StdinContents)
  /\ optidx = 1
  /\ options = NoOptions
  /\ stdout = <<>>
  /\ stderr = <<>>
  /\ fileOut = NoFile
  /\ exitStatus = -1
  /\ decode = FALSE
  /\ useSlashWordspacer = FALSE
  /\ input = <<>>
  /\ i = 1
  /\ maxBufferSize = 0
  /\ result = <<>>
  /\ lastWasSpace = FALSE
  /\ firstChar = TRUE
  /\ codeBuf = <<>>
  /\ spaceCount = 0

coreVars == <<decode, useSlashWordspacer, input, i, maxBufferSize,
              result, lastWasSpace, firstChar, codeBuf, spaceCount>>

\* Variant of the check with a third flag that is never set at this point.
ConflictingOptions_Never(opts) == opts.encode /\ opts.decode /\ opts.help

\* if (options->encode && options->decode)
ConflictingOptions(opts) == opts.encode /\ opts.decode

\* Variant of the check that looks at the encode flag.
SlashWithDecode_WrongFlag(opts) == opts.encode /\ opts.slashWordspacer /\ opts.decode

\* if (options->decode) { if (options->slashWordspacer) ...
SlashWithDecode(opts) == opts.decode /\ opts.slashWordspacer

\* main's if / else-if chain over readFromPipe, inputFile, inputText.
InputSource(opts) ==
  IF opts.readFromPipe THEN "stdin"
  ELSE IF opts.inputFile THEN "file"
  ELSE IF opts.inputText THEN "text"
  ELSE "none"

\* One iteration of the getopt_long loop.  -h and -p return at once; an
\* invalid option returns an error, which main prints before it returns 1.
ParseOption ==
  /\ pc = "getopt"
  /\ optidx <= Len(argv)
  /\ LET c == argv[optidx]
     IN  /\ options' = CASE c = "h" -> [options EXCEPT !.help = TRUE]
                         [] c = "p" -> [options EXCEPT !.programmerInfo = TRUE]
                         [] c = "e" -> [options EXCEPT !.encode = TRUE]
                         [] c = "d" -> [options EXCEPT !.decode = TRUE]
                         [] c = "o" -> [options EXCEPT !.outputFile = TRUE]
                         [] c = "s" -> [options EXCEPT !.slashWordspacer = TRUE]
                         [] OTHER -> NoOptions
         /\ pc' = IF c \in {"h", "p"} THEN "main"
                  ELSE IF c \in {"e", "d", "o", "s"} THEN "getopt" ELSE "exit"
         /\ stderr' = IF c \in {"h", "p", "e", "d", "o", "s"} THEN stderr
                      ELSE Append(stderr, "Error: Invalid option")
         /\ exitStatus' = IF c \in {"h", "p", "e", "d", "o", "s"} THEN exitStatus ELSE 1
  /\ optidx' = optidx + 1
  /\ UNCHANGED <<argv, positional, stdinIsTty, stdinData, stdout, fileOut>>
  /\ UNCHANGED coreVars

\* After the loop: the conflict check, the encode default, the argument at
\* optind, and isInputFromPipe().
ParseFinish ==
  /\ pc = "getopt"
  /\ optidx > Len(argv)
  /\ IF ConflictingOptions(options)
     THEN /\ options' = NoOptions
          /\ stderr' = Append(stderr, "Error: Cannot specify both encode (-e) and decode (-d) options")
          /\ exitStatus' = 1
          /\ pc' = "exit"
     ELSE /\ options' = [options EXCEPT
                           !.encode = IF ~options.decode /\ ~options.encode THEN TRUE ELSE @,
                           !.inputFile = (positional = "file"),
                           !.inputText = (positional = "text"),
                           !.readFromPipe = ~stdinIsTty]
          /\ UNCHANGED <<stderr, exitStatus>>
          /\ pc' = "main"
  /\ UNCHANGED <<argv, positional, stdinIsTty, stdinData, optidx, stdout, fileOut>>
  /\ UNCHANGED coreVars

\* main: "Handle special options".
MainSpecial ==
  /\ pc = "main"
  /\ options.help \/ options.programmerInfo
  /\ stdout' = Append(stdout, [kind |-> IF options.help THEN "help" ELSE "programmer-info",
                               text |-> <<>>])
  /\ exitStatus' = 0
  /\ pc' = "exit"
  /\ UNCHANGED <<argv, positional, stdinIsTty, stdinData, optidx, options, stderr, fileOut>>
  /\ UNCHANGED coreVars

\* main: "Determine input source and read content".  Reading the file can
\* fail although access() found it readable.
MainReadInput ==
  /\ pc = "main"
  /\ ~options.help /\ ~options.programmerInfo
  /\ \E readOk \in BOOLEAN :
       LET source == InputSource(options)
       IN  IF source = "none"
           THEN /\ stderr' = Append(stderr, "Error: No input text provided.")
                /\ stdout' = Append(stdout, [kind |-> "help", text |-> <<>>])
                /\ exitStatus' = 1
                /\ pc' = "exit"
                /\ input' = input
           ELSE IF source = "file" /\ ~readOk
           THEN /\ stderr' = Append(stderr, "Input Error")
                /\ exitStatus' = 1
                /\ pc' = "exit"
                /\ UNCHANGED <<stdout, input>>
           ELSE /\ input' = CASE source = "stdin" -> TrimNewline(stdinData)
                              [] source = "file" -> TrimNewline(FileContent)
                              [] OTHER -> ArgText
                /\ pc' = "process"
                /\ UNCHANGED <<stdout, stderr, exitStatus>>
  /\ UNCHANGED <<argv, positional, stdinIsTty, stdinData, optidx, options, fileOut>>
  /\ UNCHANGED <<decode, useSlashWordspacer, i, maxBufferSize,
                 result, lastWasSpace, firstChar, codeBuf, spaceCount>>

\* main: "Process the input": the slash check, then the call of decodeText
\* or of encodeText with its arguments.
MainProcess ==
  /\ pc = "process"
  /\ IF SlashWithDecode(options)
     THEN /\ stderr' = Append(stderr, "Warning: --slash-wordspacer can only be used with encode operation")
          /\ exitStatus' = 1
          /\ pc' = "exit"
          /\ UNCHANGED <<decode, useSlashWordspacer>>
     ELSE /\ decode' = options.decode
          /\ useSlashWordspacer' = (IF options.decode THEN FALSE ELSE options.slashWordspacer)
          /\ pc' = "call"
          /\ UNCHANGED <<stderr, exitStatus>>
  /\ UNCHANGED <<argv, positional, stdinIsTty, stdinData, optidx, options, stdout, fileOut>>
  /\ UNCHANGED <<input, i, maxBufferSize, result, lastWasSpace, firstChar, codeBuf, spaceCount>>

\* main: processResult.hasError.
MainProcessError ==
  /\ pc = "error"
  /\ stderr' = Append(stderr, "Processing Error: Memory allocation failed")
  /\ exitStatus' = 1
  /\ pc' = "exit"
  /\ UNCHANGED <<argv, positional, stdinIsTty, stdinData, optidx, options, stdout, fileOut>>
  /\ UNCHANGED coreVars

\* main: "Output the result", to the -o file (which can fail) or to stdout.
MainOutput ==
  /\ pc = "done"
  /\ \E writeOk \in BOOLEAN :
       IF options.outputFile
       THEN IF writeOk
            THEN /\ fileOut' = [written |-> TRUE, text |-> result]
                 /\ exitStatus' = 0
                 /\ UNCHANGED <<stdout, stderr>>
            ELSE /\ stderr' = Append(stderr, "Output Error")
                 /\ exitStatus' = 1
                 /\ UNCHANGED <<stdout, fileOut>>
       ELSE /\ stdout' = Append(stdout, [kind |-> IF options.decode THEN "Decoded: " ELSE "Encoded: ",
                                         text |-> result])
            /\ exitStatus' = 0
            /\ UNCHANGED <<stderr, fileOut>>
  /\ pc' = "exit"
  /\ UNCHANGED <<argv, positional, stdinIsTty, stdinData, optidx, options>>
  /\ UNCHANGED coreVars

CliNext ==
  \/ ParseOption
  \/ ParseFinish
  \/ MainSpecial
  \/ MainReadInput
  \/ MainProcess
  \/ EncodeAlloc
  \/ EncodeLoop
  \/ EncodeReturn
  \/ DecodeAlloc
  \/ DecodeLoop
  \/ DecodeReturn
  \/ MainProcessError
  \/ MainOutput

CliSpec == CliInit /\ [][CliNext]_vars

(***************************************************************************)
(* Properties of the program                                               *)
(***************************************************************************)
\* The option c is on the command line.
Has(c) == \E k \in 1..Len(argv) : argv[k] = c

\* The first of -h, -p and an invalid option that getopt_long meets is c.
EndsParseWith(c) ==
  \E k \in 1..Len(argv) :
    /\ argv[k] = c
    /\ \A j \in 1..(k - 1) : argv[j] \notin {"h", "p", "?"}

\* Control is inside encodeText or decodeText, or has returned from it.
InCore == pc \in {"call", "encode", "decode", "done", "error", "fault"}

NoResultWritten ==
  /\ fileOut = NoFile
  /\ \A k \in 1..Len(stdout) : stdout[k].kind \in {"help", "programmer-info"}

ConflictMessage == "Error: Cannot specify both encode (-e) and decode (-d) options"
SlashWarning == "Warning: --slash-wordspacer can only be used with encode operation"

InputComesFromArgumentIfGiven ==
  /\ pc = "process" =>
       input = CASE positional = "text" -> ArgText
                 [] positional = "file" -> TrimNewline(FileContent)
                 [] OTHER -> TrimNewline(stdinData)
  /\ (pc = "exit" /\ positional = "none")
       => \A k \in 1..Len(stderr) : stderr[k] # "Error: No input text provided."

(***************************************************************************)
(* Buffers of the morse.c variant                                          *)
(***************************************************************************)
\* C17: every byte encodeText writes, the terminating NUL included, lies
\* within the strlen(text) * 10 bytes it allocated:
\* strlen(output) + 1 <= 10 * strlen(text), for every input text.
EncodeOutputFitsBuffer ==
  (~decode /\ pc \in {"encode", "done", "fault"})
    => /\ pc # "fault"
       /\ maxBufferSize = 10 * Len(input)
       /\ Len(result) + 1 <= 10 * Len(input)

\* The locals of decodeText between two input bytes.
DecodeState == [result |-> result, codeBuf |-> codeBuf, spaceCount |-> spaceCount]

\* C18: decodeText's output is never longer than its input: between input
\* bytes resultIndex is at most the number of bytes consumed, the returned
\* string is at most strlen(morse) long, and every write, the terminating
\* NUL included, is inside the strlen(morse) + 1 bytes allocated.
DecodeOutputNotLongerThanInput ==
  decode =>
    /\ pc = "decode" => /\ Len(result) <= i - 1
                        /\ Len(result) + 1 <= maxBufferSize
    /\ pc = "done" => /\ maxBufferSize = Len(input) + 1
                      /\ Len(result) <= Len(input)
                      /\ Len(result) + 1 <= maxBufferSize

\* A slash directly after a one-byte code: two bytes in, two characters out.
DecodeOutputNotLongerThanInputWitness ==
  /\ Decoded
  /\ input = <<".", "/">>
  /\ result = <<"E", " ">>
  /\ Len(result) = Len(input)

\* C19: a \n or \r byte changes no decoder state (code buffer, space
\* counter, output), so decodeText(morse) is decodeText of morse without its
\* \n and \r bytes, also when the newline is inside a code or a run of spaces.
NewlinesChangeNoDecoderState ==
  decode =>
    /\ (pc = "decode" /\ i > 1 /\ IsNewline(input[i - 1]))
         => DecodeState = DecodeFrom(DecodeStart, SubSeq(input, 1, i - 2), 1)
    /\ pc = "decode"
         => DecodeState
              = DecodeFrom(DecodeStart, StripNewlines(SubSeq(input, 1, i - 1)), 1)
    /\ pc = "done" => /\ result = decodeText(input)
                      /\ result = decodeText(StripNewlines(input))

\* A \r\n inside the code .--. and the result of the whole call.
NewlinesChangeNoDecoderStateWitness ==
  /\ Decoded
  /\ input = Chars(".-\r\n-.  *")
  /\ StripNewlines(input) = Chars(".--.  *")
  /\ result = <<"P">>

\* A newline inside a run of three spaces.
NewlineInsideSpaceRun ==
  /\ Decoded
  /\ input = Chars(". \n  -")
  /\ result = Chars("E T")

\* The bytes that decodeText collects into the code buffer.
IsCodeByte(c) == c # " " /\ c # "/" /\ ~IsNewline(c)

\* C20: between input bytes the space counter is in 0..2, and a run of k
\* spaces directly after a code emits the code's character once, at the first
\* space, and then floor(k / 3) spaces: a gap of one or two spaces is no word
\* boundary (".-  -..." gives "AB"), a gap of three is one (".-   -..." gives
\* "A B").
SpaceRunsGiveWordBoundaries ==
  decode =>
    /\ pc \in {"decode", "done"} => spaceCount \in 0..2
    /\ pc = "decode" =>
         \A j \in 1..(i - 2) :
           (IsCodeByte(input[j]) /\ \A m \in (j + 1)..(i - 1) : input[m] = " ")
             => LET k == i - 1 - j
                    atCode == DecodeFrom(DecodeStart, SubSeq(input, 1, j), 1)
                IN  /\ result = Flush(atCode).result \o [x \in 1..(k \div 3) |-> " "]
                    /\ codeBuf = <<>>
                    /\ spaceCount = k % 3
    /\ (pc = "done" /\ input = Chars(".-  -...")) => result = Chars("AB")
    /\ (pc = "done" /\ input = Chars(".-   -...")) => result = Chars("A B")

\* Six spaces after the code of E have been consumed: two word boundaries.
SpaceRunsGiveWordBoundariesWitness ==
  /\ pc = "decode"
  /\ decode
  /\ input = Chars(".      -")
  /\ i = 8
  /\ result = Chars("E  ")
  /\ codeBuf = <<>>
  /\ spaceCount = 0

\* The locals of decodeText after the first n input bytes.
DecodeAfter(n) == DecodeFrom(DecodeStart, SubSeq(input, 1, n), 1)

\* C21: on every '/' byte decodeText first flushes the pending code (its
\* character, if any, comes before the space), then emits exactly one space
\* and resets the space counter to 0, with or without spaces around the
\* slash: ".- / -..." and ".-/-..." both decode to "A B".
SlashFlushesThenEmitsOneSpace ==
  decode =>
    /\ (pc = "decode" /\ i > 1 /\ input[i - 1] = "/")
         => LET before == DecodeAfter(i - 2)
            IN  /\ result = Flush(before).result \o <<" ">>
                /\ Len(result) - Len(before.result)
                     = (IF Len(before.codeBuf) > 0
                           /\ getCodeCharacter(before.codeBuf) # NUL THEN 2 ELSE 1)
                /\ codeBuf = <<>>
                /\ spaceCount = 0
    /\ (pc = "done" /\ input = Chars(".- / -...")) => result = Chars("A B")
    /\ (pc = "done" /\ input = Chars(".-/-...")) => result = Chars("A B")

\* The slash of ".-/-..." has just been consumed with the code of A pending.
SlashFlushesThenEmitsOneSpaceWitness ==
  /\ pc = "decode"
  /\ decode
  /\ input = Chars(".-/-...")
  /\ i = 4
  /\ DecodeAfter(2).codeBuf = <<".", "-">>
  /\ result = <<"A", " ">>
  /\ codeBuf = <<>>
  /\ spaceCount = 0

\* C22: the code-buffer index never exceeds 19, so the terminator write
\* codeBuf[codeBufIndex] is inside the 20-byte buffer; the index is 0 after
\* every space and slash; a token of more than 19 bytes is cut to its first
\* 19 bytes and decodes to no character.
CodeBufferIndexInBounds ==
  (decode /\ pc \in {"decode", "done"}) =>
    /\ Len(codeBuf) <= CodeBufSize - 1
    /\ Len(codeBuf) + 1 <= CodeBufSize
    /\ (pc = "decode" /\ i > 1 /\ input[i - 1] \in {" ", "/"}) => codeBuf = <<>>
    /\ (pc = "decode" /\ i - 1 >= CodeBufSize)
         => \A j \in 1..(i - CodeBufSize) :
              ((j = 1 \/ input[j - 1] \in {" ", "/"})
                 /\ \A m \in j..(i - 1) : IsCodeByte(input[m]))
                => /\ codeBuf = SubSeq(input, j, j + CodeBufSize - 2)
                   /\ getCodeCharacter(codeBuf) = NUL
                   /\ Flush(DecodeState).result = result

\* A token of 22 bytes has been consumed: 19 are kept and match no code.
CodeBufferIndexInBoundsWitness ==
  /\ pc = "decode"
  /\ decode
  /\ input = Chars(".-.-.-.-.-.-.-.-.-.-.- .")
  /\ i = 23
  /\ Len(codeBuf) = CodeBufSize - 1
  /\ codeBuf = SubSeq(input, 1, 19)
  /\ result = <<>>

\* The space after that token has been consumed: nothing was written.
LongTokenIsDropped ==
  /\ pc = "decode"
  /\ decode
  /\ input = Chars(".-.-.-.-.-.-.-.-.-.-.- .")
  /\ i = 24
  /\ codeBuf = <<>>
  /\ result = <<>>

====
